---------------------------- MODULE Spec2Model ----------------------------
(***************************************************************************)
(* PID-Tag-Puller: the tag classification engine (tag_extractor) and the   *)
(* text extraction pipeline (pdf_processor).                               *)
(*                                                                         *)
(* Text handled by the tag engine is a sequence of one-character strings,  *)
(* so that the regular expressions of patterns.py can be evaluated         *)
(* position by position.  Text handled by the PDF pipeline is only         *)
(* concatenated and measured, and is kept as plain strings.                *)
(***************************************************************************)
EXTENDS Integers, Sequences, FiniteSets, TLC

VARIABLES
    text,        \* TagExtractor.text
    tags,        \* TagExtractor.tags
    tag_counts,  \* TagExtractor.tag_counts (a Counter: tag -> count)
    ncalls,      \* number of extract_all_tags calls made on the instance
    result,      \* what the last TagExtractor method call returned
    document,    \* the file behind pdf_path: missing, corrupt, or its pages
    ocr_ok,      \* whether the tesseract engine can be run
    extractor,   \* the PDFExtractor object: none yet, constructed, or failed
    outcome,     \* what the last PDFExtractor method call did
    pdf_path,        \* MainWindow.pdf_path
    extracted_tags,  \* MainWindow.extracted_tags, with the run that stored it
    tag_summary,     \* MainWindow.tag_summary, with the run that stored it
    export_button,   \* state of the Export to CSV button
    results_text,    \* what the results text box holds, top to bottom
    status_label,    \* the last status text or message box
    exported,        \* what the last export wrote
    workers          \* the extraction worker threads

tagVars == <<text, tags, tag_counts, ncalls, result>>
pdfVars == <<document, ocr_ok, extractor, outcome>>
guiVars == <<pdf_path, extracted_tags, tag_summary, export_button,
             results_text, status_label, exported, workers>>
vars == <<text, tags, tag_counts, ncalls, result,
          document, ocr_ok, extractor, outcome,
          pdf_path, extracted_tags, tag_summary, export_button,
          results_text, status_label, exported, workers>>

-----------------------------------------------------------------------------
(* Bounds of the model. *)

\* texts are made of at most MaxTokens vocabulary words
MaxTokens == 2
\* at most MaxCalls calls of extract_all_tags on one instance
MaxCalls == 2
\* documents have 1 to MaxPages pages
MaxPages == 2
\* extract_text is called with min_text_threshold in 0 .. MaxThreshold
MaxThreshold == 3
\* Extract Tags is pressed at most MaxWorkers times
MaxWorkers == 2

-----------------------------------------------------------------------------
(* Characters and their ordinal order (Python compares str by code point). *)

DigitSeq == <<"0","1","2","3","4","5","6","7","8","9">>
UpperSeq == <<"A","B","C","D","E","F","G","H","I","J","K","L","M",
              "N","O","P","Q","R","S","T","U","V","W","X","Y","Z">>
LowerSeq == <<"a","b","c","d","e","f","g","h","i","j","k","l","m",
              "n","o","p","q","r","s","t","u","v","w","x","y","z">>

Range(s) == {s[i] : i \in DOMAIN s}

Digit == Range(DigitSeq)
Upper == Range(UpperSeq)
Lower == Range(LowerSeq)

IndexOf(s, c) == CHOOSE i \in DOMAIN s : s[i] = c

Punctuation == {"\n", " ", "-", ".", "_"}

\* ord(c) for the characters that occur in the modelled texts
Ord ==
    [c \in Digit \cup Upper \cup Lower \cup Punctuation |->
        IF c \in Digit THEN 47 + IndexOf(DigitSeq, c)
        ELSE IF c \in Upper THEN 64 + IndexOf(UpperSeq, c)
        ELSE IF c \in Lower THEN 96 + IndexOf(LowerSeq, c)
        ELSE CASE c = "\n" -> 10
               [] c = " "  -> 32
               [] c = "-"  -> 45
               [] c = "."  -> 46
               [] c = "_"  -> 95]

\* str.__lt__ : lexicographic by code point, a proper prefix is smaller
RECURSIVE StrLess(_, _)
StrLess(a, b) ==
    IF b = <<>> THEN FALSE
    ELSE IF a = <<>> THEN TRUE
    ELSE IF Head(a) = Head(b) THEN StrLess(Tail(a), Tail(b))
    ELSE Ord[Head(a)] < Ord[Head(b)]

\* list.sort / sorted() on a list of str: insertion into ascending order
RECURSIVE InsertSorted(_, _)
InsertSorted(t, s) ==
    IF s = <<>> THEN <<t>>
    ELSE IF StrLess(Head(s), t) THEN <<Head(s)>> \o InsertSorted(t, Tail(s))
    ELSE <<t>> \o s

RECURSIVE sorted(_)
sorted(s) == IF s = <<>> THEN <<>> ELSE InsertSorted(Head(s), sorted(Tail(s)))

\* a Python set iterated in some order, as a list
RECURSIVE SetToSeq(_)
SetToSeq(S) ==
    IF S = {} THEN <<>>
    ELSE LET t == CHOOSE u \in S : TRUE IN <<t>> \o SetToSeq(S \ {t})

\* number of elements of s equal to t (list.count)
RECURSIVE Count(_, _)
Count(s, t) ==
    IF s = <<>> THEN 0
    ELSE (IF Head(s) = t THEN 1 ELSE 0) + Count(Tail(s), t)

-----------------------------------------------------------------------------
(* Regular-expression primitives of Python's re, on a char sequence s.     *)
(* A position i is the index of the next character to consume.             *)

At(s, i) == IF i >= 1 /\ i <= Len(s) THEN s[i] ELSE ""

\* \w
WordChars == Upper \cup Lower \cup Digit \cup {"_"}

IsWord(c) == c \in WordChars

\* \b at position i: exactly one side is a word character
WordBoundary(s, i) == IsWord(At(s, i - 1)) # IsWord(At(s, i))

\* the literal lit occurs at position i
Lit(s, i, lit) ==
    /\ i + Len(lit) - 1 <= Len(s)
    /\ SubSeq(s, i, i + Len(lit) - 1) = lit

\* length of the run of characters of class C starting at position i
RECURSIVE RunLen(_, _, _)
RunLen(s, i, C) == IF At(s, i) \in C THEN 1 + RunLen(s, i + 1, C) ELSE 0

\* exactly-n characters of class C at position i (C{n})
Exactly(s, i, C, n) == \A k \in 0 .. n - 1 : At(s, i + k) \in C

\* $ : end of string, or just before a newline that ends the string
Dollar(s, i) == i = Len(s) + 1 \/ (i = Len(s) /\ s[i] = "\n")

-----------------------------------------------------------------------------
(* patterns.py: the seven acceptance patterns.  Each operator gives the    *)
(* position just after the match that starts at position i, or 0 when the  *)
(* pattern does not match there.                                           *)

AlNum == Upper \cup Digit

\* r"STORM_P\d{4}-\d+"
PUMP_PATTERN_STORM(s, i) ==
    LET j == i + 7
        n == RunLen(s, j + 5, Digit)
    IN  IF /\ At(s, i) = "S"
           /\ Lit(s, i, <<"S","T","O","R","M","_","P">>)
           /\ Exactly(s, j, Digit, 4)
           /\ At(s, j + 4) = "-"
           /\ n >= 1
        THEN j + 5 + n ELSE 0

\* r"\bP\d{4}\b"
PUMP_PATTERN_SHORT(s, i) ==
    IF /\ WordBoundary(s, i)
       /\ At(s, i) = "P"
       /\ Exactly(s, i + 1, Digit, 4)
       /\ WordBoundary(s, i + 5)
    THEN i + 5 ELSE 0

\* r"ROCK TRAP \d+"
ROCK_TRAP_PATTERN(s, i) ==
    LET n == RunLen(s, i + 10, Digit)
    IN  IF /\ At(s, i) = "R"
           /\ Lit(s, i, <<"R","O","C","K"," ","T","R","A","P"," ">>)
           /\ n >= 1
        THEN i + 10 + n ELSE 0

\* r"VLV\d{4}"
VALVE_PATTERN(s, i) ==
    IF At(s, i) = "V" /\ Lit(s, i, <<"V","L","V">>) /\ Exactly(s, i + 3, Digit, 4)
    THEN i + 7 ELSE 0

\* r"\b[A-Z]{2}-[A-Z0-9]{2,4}-[A-Z0-9]{2,4}-\d{4}\b"
\* ([A-Z0-9]{2,4} is followed by "-", which is not in the class, so the
\*  run of class characters must itself be 2 to 4 long)
INSTRUMENT_PATTERN(s, i) ==
    LET a  == i + 3
        n1 == RunLen(s, a, AlNum)
        b  == a + n1 + 1
        n2 == RunLen(s, b, AlNum)
        c  == b + n2 + 1
    IN  IF /\ WordBoundary(s, i)
           /\ Exactly(s, i, Upper, 2)
           /\ At(s, i + 2) = "-"
           /\ n1 >= 2 /\ n1 <= 4
           /\ At(s, a + n1) = "-"
           /\ n2 >= 2 /\ n2 <= 4
           /\ At(s, b + n2) = "-"
           /\ Exactly(s, c, Digit, 4)
           /\ WordBoundary(s, c + 4)
        THEN c + 4 ELSE 0

\* r"\b[A-Z]{3,4}\d{4}\b"
\* (letters and digits are disjoint, so the letter run is 3 or 4 long)
GENERIC_TAG_PATTERN(s, i) ==
    LET n == RunLen(s, i, Upper)
    IN  IF /\ WordBoundary(s, i)
           /\ n >= 3 /\ n <= 4
           /\ Exactly(s, i + n, Digit, 4)
           /\ WordBoundary(s, i + n + 4)
        THEN i + n + 4 ELSE 0

\* r"\b[A-Z]{2}\d{1,3}\b"
\* (the closing \b cannot sit between two digits, so the digit run is 1 to 3)
VENDOR_EQUIPMENT_PATTERN(s, i) ==
    LET n == RunLen(s, i + 2, Digit)
    IN  IF /\ WordBoundary(s, i)
           /\ Exactly(s, i, Upper, 2)
           /\ n >= 1 /\ n <= 3
           /\ WordBoundary(s, i + 2 + n)
        THEN i + 2 + n ELSE 0

\* COMPILED_PATTERNS, in dict (insertion) order
PatternNames == <<"pump_storm", "pump_short", "rock_trap", "valve",
                  "instrument", "generic_tag", "vendor">>

COMPILED_PATTERNS(p, s, i) ==
    CASE p = "pump_storm"  -> PUMP_PATTERN_STORM(s, i)
      [] p = "pump_short"  -> PUMP_PATTERN_SHORT(s, i)
      [] p = "rock_trap"   -> ROCK_TRAP_PATTERN(s, i)
      [] p = "valve"       -> VALVE_PATTERN(s, i)
      [] p = "instrument"  -> INSTRUMENT_PATTERN(s, i)
      [] p = "generic_tag" -> GENERIC_TAG_PATTERN(s, i)
      [] p = "vendor"      -> VENDOR_EQUIPMENT_PATTERN(s, i)

\* pattern.findall(text): the non-overlapping matches, scanning left to right
RECURSIVE FindFrom(_, _, _)
FindFrom(p, s, i) ==
    IF i > Len(s) THEN <<>>
    ELSE LET e == COMPILED_PATTERNS(p, s, i)
         IN  IF e > 0
             THEN <<SubSeq(s, i, e - 1)>> \o FindFrom(p, s, e)
             ELSE FindFrom(p, s, i + 1)

findall(p, s) == FindFrom(p, s, 1)

-----------------------------------------------------------------------------
(* patterns.py: the exclusion rules.  pattern.match anchors at the start;  *)
(* every rule ends in $.                                                   *)

\* the whole of s is lit, up to $
IsLit(s, lit) == Lit(s, 1, lit) /\ Dollar(s, Len(lit) + 1)

\* r"^ST\d{4}$"
ExcludeDrawingNumber(s) ==
    /\ Lit(s, 1, <<"S","T">>)
    /\ Exactly(s, 3, Digit, 4)
    /\ Dollar(s, 7)

\* r"^P\d{4}-\d+-\d+$"
ExcludeSheet3(s) ==
    LET n1 == RunLen(s, 7, Digit)
        n2 == RunLen(s, 8 + n1, Digit)
    IN  /\ At(s, 1) = "P"
        /\ Exactly(s, 2, Digit, 4)
        /\ At(s, 6) = "-"
        /\ n1 >= 1
        /\ At(s, 7 + n1) = "-"
        /\ n2 >= 1
        /\ Dollar(s, 8 + n1 + n2)

\* r"^P\d{4}-\d+$"
ExcludeSheet2(s) ==
    LET n1 == RunLen(s, 7, Digit)
    IN  /\ At(s, 1) = "P"
        /\ Exactly(s, 2, Digit, 4)
        /\ At(s, 6) = "-"
        /\ n1 >= 1
        /\ Dollar(s, 7 + n1)

\* r"^NOTE \d+$"
ExcludeNote(s) ==
    LET n == RunLen(s, 6, Digit)
    IN  /\ Lit(s, 1, <<"N","O","T","E"," ">>)
        /\ n >= 1
        /\ Dollar(s, 6 + n)

\* r"^[A-G]$"
ExcludeGridLetter(s) ==
    At(s, 1) \in {"A","B","C","D","E","F","G"} /\ Dollar(s, 2)

\* r"^\d{1,2}$"
ExcludeGridNumber(s) ==
    LET n == RunLen(s, 1, Digit)
    IN  \E k \in 1 .. 2 : k <= n /\ Dollar(s, k + 1)

\* r"^EXISTING$|^PROPOSED$|^WATER CANNON$|^WATER HYDRANT$"
ExcludeLegend(s) ==
    \/ IsLit(s, <<"E","X","I","S","T","I","N","G">>)
    \/ IsLit(s, <<"P","R","O","P","O","S","E","D">>)
    \/ IsLit(s, <<"W","A","T","E","R"," ","C","A","N","N","O","N">>)
    \/ IsLit(s, <<"W","A","T","E","R"," ","H","Y","D","R","A","N","T">>)

\* r"^SHEET No\.$|^DRAWING STATUS$|^REVISION$"
ExcludeTitleBlock(s) ==
    \/ IsLit(s, <<"S","H","E","E","T"," ","N","o",".">>)
    \/ IsLit(s, <<"D","R","A","W","I","N","G"," ","S","T","A","T","U","S">>)
    \/ IsLit(s, <<"R","E","V","I","S","I","O","N">>)

\* r"^COPYRIGHT$|^APPROVAL$|^DRAWN BY$|^CHECKED BY$"
ExcludeTitleBlock2(s) ==
    \/ IsLit(s, <<"C","O","P","Y","R","I","G","H","T">>)
    \/ IsLit(s, <<"A","P","P","R","O","V","A","L">>)
    \/ IsLit(s, <<"D","R","A","W","N"," ","B","Y">>)
    \/ IsLit(s, <<"C","H","E","C","K","E","D"," ","B","Y">>)

\* any(pattern.match(text) for pattern in COMPILED_EXCLUDE)
is_excluded(s) ==
    \/ ExcludeDrawingNumber(s)
    \/ ExcludeSheet3(s)
    \/ ExcludeSheet2(s)
    \/ ExcludeNote(s)
    \/ ExcludeGridLetter(s)
    \/ ExcludeGridNumber(s)
    \/ ExcludeLegend(s)
    \/ ExcludeTitleBlock(s)
    \/ ExcludeTitleBlock2(s)

\* longest string is_likely_tag lets through
MaxTagLen == 50

\* str.isupper(): at least one cased character and no lower-case one
isupper(s) ==
    /\ \E i \in DOMAIN s : s[i] \in Upper
    /\ \A i \in DOMAIN s : s[i] \notin Lower

\* sum(c.isupper() for c in text)
UpperCount(s) == Cardinality({i \in DOMAIN s : s[i] \in Upper})

\* is_likely_tag: non-empty, at most 50 long, upper case or mostly upper case
\* (sum / len > 0.5 is 2 * sum > len)
is_likely_tag(s) ==
    IF s = <<>> \/ Len(s) > MaxTagLen THEN FALSE
    ELSE isupper(s) \/ 2 * UpperCount(s) > Len(s)

-----------------------------------------------------------------------------
(* The texts a TagExtractor is constructed with: up to MaxTokens words of  *)
(* drawing text, separated by single spaces.                               *)

VLV1001       == <<"V","L","V","1","0","0","1">>
STORM_P1001_1 == <<"S","T","O","R","M","_","P","1","0","0","1","-","1">>
P1011_1       == <<"P","1","0","1","1","-","1">>
ST0008        == <<"S","T","0","0","0","8">>
QD_TANK_84_1101 == <<"Q","D","-","T","A","N","K","-","8","4","-","1","1","0","1">>
ROCK_TRAP_1   == <<"R","O","C","K"," ","T","R","A","P"," ","1">>
KD1           == <<"K","D","1">>
PT123         == <<"P","T","1","2","3">>

Vocabulary ==
    { VLV1001, STORM_P1001_1, P1011_1, ST0008, QD_TANK_84_1101,
      ROCK_TRAP_1, KD1, PT123 }

RECURSIVE JoinWords(_)
JoinWords(ws) ==
    IF ws = <<>> THEN <<>>
    ELSE IF Len(ws) = 1 THEN ws[1]
    ELSE ws[1] \o <<" ">> \o JoinWords(Tail(ws))

Texts ==
    UNION { { JoinWords(ws) : ws \in [1 .. n -> Vocabulary] } : n \in 0 .. MaxTokens }

-----------------------------------------------------------------------------
(* tag_extractor/extractor.py: TagExtractor                                *)

EmptyCounter == [t \in {} |-> 0]

\* Counter: c[m] += 1
Increment(c, m) ==
    [t \in DOMAIN c \cup {m} |->
        IF t = m THEN (IF m \in DOMAIN c THEN c[m] + 1 ELSE 1) ELSE c[t]]

\* a slip that drops the negation of the exclusion test
Accepted_no_not(m) == is_likely_tag(m) /\ is_excluded(m)

\* the validation of one raw match (extractor.py line 35)
Accepted(m) == is_likely_tag(m) /\ ~ is_excluded(m)

\* the raw matches in the order the two nested loops visit them
RECURSIVE RawMatches(_, _)
RawMatches(ps, s) ==
    IF ps = <<>> THEN <<>>
    ELSE findall(Head(ps), s) \o RawMatches(Tail(ps), s)

\* self.tags after the loops, starting from the list acc
RECURSIVE AppendAccepted(_, _)
AppendAccepted(acc, ms) ==
    IF ms = <<>> THEN acc
    ELSE AppendAccepted(IF Accepted(Head(ms)) THEN Append(acc, Head(ms)) ELSE acc,
                        Tail(ms))

\* self.tag_counts after the loops, starting from the counter c
RECURSIVE CountAccepted(_, _)
CountAccepted(c, ms) ==
    IF ms = <<>> THEN c
    ELSE CountAccepted(IF Accepted(Head(ms)) THEN Increment(c, Head(ms)) ELSE c,
                       Tail(ms))

\* a filter that does what the docstring describes by dropping every P####
filter_short_pump_tags_drop(ts) ==
    SelectSeq(ts, LAMBDA t : ~ (Len(t) = 5 /\ PUMP_PATTERN_SHORT(t, 1) = 6))

\* _filter_short_pump_tags: returns its argument
filter_short_pump_tags(ts) == ts

\* a slip that returns the list unsorted
sorted_tags_unsorted(ts, deduplicate) ==
    IF deduplicate THEN SetToSeq(Range(ts)) ELSE ts

\* the value extract_all_tags returns (lines 43-48)
sorted_tags(ts, deduplicate) ==
    IF deduplicate THEN sorted(SetToSeq(Range(ts))) ELSE sorted(ts)

\* __init__
TagInit ==
    /\ text \in Texts
    /\ tags = <<>>
    /\ tag_counts = EmptyCounter
    /\ ncalls = 0
    /\ result = [op |-> "none"]

\* extract_all_tags(deduplicate): self.tags is reset, self.tag_counts is not
extract_all_tags(deduplicate) ==
    /\ ncalls < MaxCalls
    /\ \E ms \in {RawMatches(PatternNames, text)} :
         /\ tags' = filter_short_pump_tags(AppendAccepted(<<>>, ms))
         /\ tag_counts' = CountAccepted(tag_counts, ms)
    /\ result' = [op |-> "extract_all_tags", deduplicate |-> deduplicate,
                  value |-> sorted_tags(tags', deduplicate)]
    /\ ncalls' = ncalls + 1
    /\ UNCHANGED text

\* dict(self.tag_counts)
get_tag_counts_value == tag_counts

get_tag_counts ==
    /\ result' = [op |-> "get_tag_counts", value |-> get_tag_counts_value]
    /\ UNCHANGED <<text, tags, tag_counts, ncalls>>

\* str.startswith
startswith(s, prefix) == Lit(s, 1, prefix)

\* sub in s
Contains(s, sub) == \E i \in 1 .. Len(s) : Lit(s, i, sub)

\* s.split(sep) for a one-character sep
RECURSIVE split(_, _)
split(s, sep) ==
    IF \E i \in DOMAIN s : s[i] = sep
    THEN LET k == CHOOSE i \in DOMAIN s :
                      s[i] = sep /\ \A j \in 1 .. i - 1 : s[j] # sep
         IN  <<SubSeq(s, 1, k - 1)>> \o split(SubSeq(s, k + 1, Len(s)), sep)
    ELSE <<s>>

CategoryNames == {"pumps", "valves", "instruments", "equipment", "other"}

\* a slip that tests the equipment rule before the instrument rule
Categorize_equipment_first(tag) ==
    IF \/ startswith(tag, <<"S","T","O","R","M","_","P">>)
       \/ (startswith(tag, <<"P">>) /\ Len(tag) = 5)
    THEN "pumps"
    ELSE IF startswith(tag, <<"V","L","V">>) THEN "valves"
    ELSE IF Contains(tag, <<"T","R","A","P">>) \/ Contains(tag, <<"T","A","N","K">>)
    THEN "equipment"
    ELSE IF Contains(tag, <<"-">>) /\ Len(split(tag, "-")) >= 3 THEN "instruments"
    ELSE "other"

\* the if/elif chain of get_tags_by_type (lines 81-90)
Categorize(tag) ==
    IF \/ startswith(tag, <<"S","T","O","R","M","_","P">>)
       \/ (startswith(tag, <<"P">>) /\ Len(tag) = 5)
    THEN "pumps"
    ELSE IF startswith(tag, <<"V","L","V">>) THEN "valves"
    ELSE IF Contains(tag, <<"-">>) /\ Len(split(tag, "-")) >= 3 THEN "instruments"
    ELSE IF Contains(tag, <<"T","R","A","P">>) \/ Contains(tag, <<"T","A","N","K">>)
    THEN "equipment"
    ELSE "other"

\* a slip that iterates self.tags instead of set(self.tags)
IteratedTags_with_repeats == tags

\* for tag in set(self.tags)
IteratedTags == SetToSeq(Range(tags))

\* categorized after the loop and the per-category sort
get_tags_by_type_value ==
    [c \in CategoryNames |->
        sorted(SelectSeq(IteratedTags, LAMBDA t : Categorize(t) = c))]

get_tags_by_type ==
    /\ result' = [op |-> "get_tags_by_type", value |-> get_tags_by_type_value]
    /\ UNCHANGED <<text, tags, tag_counts, ncalls>>

get_summary_value ==
    LET tags_by_type == get_tags_by_type_value
    IN  [ total_unique    |-> Cardinality(Range(tags)),
          total_instances |-> Len(tags),
          pumps           |-> Len(tags_by_type["pumps"]),
          valves          |-> Len(tags_by_type["valves"]),
          instruments     |-> Len(tags_by_type["instruments"]),
          equipment       |-> Len(tags_by_type["equipment"]),
          other           |-> Len(tags_by_type["other"]) ]

get_summary ==
    /\ result' = [op |-> "get_summary", value |-> get_summary_value]
    /\ UNCHANGED <<text, tags, tag_counts, ncalls>>

-----------------------------------------------------------------------------
(* pdf_processor/extractor.py: PDFExtractor.  The document behind pdf_path *)
(* is missing, is a file that no PDF library can parse, or is a PDF whose  *)
(* pages each carry a native text layer (possibly empty) and the text      *)
(* tesseract reads from its rendering under --psm 6 and under --psm 11.    *)

NativeTexts == {"", "A", "BB"}
Psm6Texts   == {"", "U"}
Psm11Texts  == {"", "S"}

Pages == [native : NativeTexts, psm6 : Psm6Texts, psm11 : Psm11Texts]

Documents ==
    {[state |-> "missing"], [state |-> "corrupt"]}
    \cup UNION { { [state |-> "pdf", pages |-> ps] : ps \in [1 .. n -> Pages] }
                 : n \in 1 .. MaxPages }

Thresholds == 0 .. MaxThreshold

\* "\n".join(parts)
RECURSIVE join(_)
join(parts) ==
    IF parts = <<>> THEN ""
    ELSE IF Len(parts) = 1 THEN parts[1]
    ELSE parts[1] \o "\n" \o join(Tail(parts))

\* a slip that appends the text of every page, empty or not
extract_text_standard_every_page(pages) ==
    join([i \in 1 .. Len(pages) |-> pages[i].native])

\* _extract_text_standard: pages whose text is empty are skipped
extract_text_standard(pages) ==
    join(SelectSeq([i \in 1 .. Len(pages) |-> pages[i].native],
                   LAMBDA t : t # ""))

\* a slip that puts the sparse output first
OcrPageText_sparse_first(page) == page.psm11 \o "\n" \o page.psm6

\* the two recognitions of one page, joined (line 90)
OcrPageText(page) == page.psm6 \o "\n" \o page.psm11

\* _extract_text_ocr: page_text always holds the newline, so no page is skipped
extract_text_ocr(pages) ==
    join(SelectSeq([i \in 1 .. Len(pages) |-> OcrPageText(pages[i])],
                   LAMBDA t : t # ""))

\* the image_to_string calls of _extract_text_ocr, in order: <<page, psm>>
RECURSIVE OcrCallsBoth(_)
OcrCallsBoth(n) ==
    IF n = 0 THEN <<>> ELSE OcrCallsBoth(n - 1) \o << <<n, 6>>, <<n, 11>> >>

\* the image_to_string calls of _extract_text_by_page_ocr, in order
OcrCallsSparse(n) == [i \in 1 .. n |-> <<i, 11>>]

\* a slip that returns the recognition output alone
Combined_ocr_only(text_extracted, ocr_text) == ocr_text

\* combined = text_extracted + "\n" + ocr_text (line 44)
Combined(text_extracted, ocr_text) == text_extracted \o "\n" \o ocr_text

\* a slip that skips blank pages, as _extract_text_standard does
extract_text_by_page_standard_skip_blank(pages) ==
    SelectSeq([i \in 1 .. Len(pages) |-> pages[i].native], LAMBDA t : t # "")

\* _extract_text_by_page_standard
extract_text_by_page_standard(pages) ==
    [i \in 1 .. Len(pages) |-> IF pages[i].native # "" THEN pages[i].native ELSE ""]

\* _extract_text_by_page_ocr: --psm 11 only
extract_text_by_page_ocr(pages) ==
    [i \in 1 .. Len(pages) |-> IF pages[i].psm11 # "" THEN pages[i].psm11 ELSE ""]

\* get_page_count on a document that parses
get_page_count_value == Len(document.pages)

PdfInit ==
    /\ document \in Documents
    /\ ocr_ok \in BOOLEAN
    /\ extractor = "none"
    /\ outcome = [op |-> "none"]

\* __init__: only the existence of the path is tested
PDFExtractor_init ==
    /\ extractor = "none"
    /\ extractor' = IF document.state = "missing"
                    THEN "FileNotFoundError" ELSE "constructed"
    /\ UNCHANGED <<document, ocr_ok, outcome>>

\* extract_text(use_ocr, min_text_threshold)
extract_text(use_ocr, min_text_threshold) ==
    /\ extractor = "constructed"
    /\ outcome' =
         IF document.state # "pdf"
         THEN \* pdfplumber.open raises
              [op |-> "extract_text", status |-> "raised", error |-> "open",
               ocr_calls |-> <<>>]
         ELSE LET text_extracted == extract_text_standard(document.pages)
                  call == [op |-> "extract_text", use_ocr |-> use_ocr,
                           min_text_threshold |-> min_text_threshold,
                           text_extracted |-> text_extracted]
              IN  IF Len(text_extracted) >= min_text_threshold
                  THEN call @@ [status |-> "returned", value |-> text_extracted,
                                ocr_calls |-> <<>>]
                  ELSE IF use_ocr
                  THEN IF ocr_ok
                       THEN LET ocr_text == extract_text_ocr(document.pages)
                            IN  call @@ [status |-> "returned",
                                         ocr_text |-> ocr_text,
                                         value |-> Combined(text_extracted, ocr_text),
                                         ocr_calls |-> OcrCallsBoth(Len(document.pages))]
                       ELSE \* the first image_to_string raises
                            call @@ [status |-> "raised", error |-> "tesseract",
                                     ocr_calls |-> << <<1, 6>> >>]
                  ELSE call @@ [status |-> "returned", value |-> text_extracted,
                                ocr_calls |-> <<>>]
    /\ UNCHANGED <<document, ocr_ok, extractor>>

\* extract_text_by_page(use_ocr)
extract_text_by_page(use_ocr) ==
    /\ extractor = "constructed"
    /\ outcome' =
         IF document.state # "pdf"
         THEN \* fitz.open or pdfplumber.open raises
              [op |-> "extract_text_by_page", status |-> "raised",
               error |-> "open", ocr_calls |-> <<>>]
         ELSE IF use_ocr
         THEN IF ocr_ok
              THEN [op |-> "extract_text_by_page", use_ocr |-> TRUE,
                    status |-> "returned",
                    value |-> extract_text_by_page_ocr(document.pages),
                    ocr_calls |-> OcrCallsSparse(Len(document.pages))]
              ELSE [op |-> "extract_text_by_page", use_ocr |-> TRUE,
                    status |-> "raised", error |-> "tesseract",
                    ocr_calls |-> << <<1, 11>> >>]
         ELSE [op |-> "extract_text_by_page", use_ocr |-> FALSE,
               status |-> "returned",
               value |-> extract_text_by_page_standard(document.pages),
               ocr_calls |-> <<>>]
    /\ UNCHANGED <<document, ocr_ok, extractor>>

\* get_page_count()
get_page_count ==
    /\ extractor = "constructed"
    /\ outcome' =
         IF document.state # "pdf"
         THEN [op |-> "get_page_count", status |-> "raised", error |-> "open",
               ocr_calls |-> <<>>]
         ELSE [op |-> "get_page_count", status |-> "returned",
               value |-> get_page_count_value, ocr_calls |-> <<>>]
    /\ UNCHANGED <<document, ocr_ok, extractor>>

-----------------------------------------------------------------------------
(* gui/main_window.py: MainWindow.  Every press of Extract Tags starts a   *)
(* thread that runs _extraction_worker; the threads and the main loop      *)
(* interleave between statements.  A stored value carries the number of    *)
(* the worker that stored it (0: the value set by __init__) and the file   *)
(* that worker read.                                                       *)

NoPath == "None"

\* the files the user can pick: two drawings, a drawing without tags and a
\* file that is not a PDF
PdfFiles == {"a.pdf", "b.pdf", "blank.pdf", "bad.pdf"}

\* pdf_extractor.extract_text() for a file that parses
PdfFileText(path) ==
    CASE path = "a.pdf" -> VLV1001
      [] path = "b.pdf" -> P1011_1 \o <<" ">> \o KD1
      [] path = "blank.pdf" -> <<>>

\* TagExtractor(text).extract_all_tags(deduplicate=True) on a fresh instance
WorkerTags(txt) ==
    sorted_tags(filter_short_pump_tags(
                    AppendAccepted(<<>>, RawMatches(PatternNames, txt))), TRUE)

\* tag_extractor.get_summary() of that same instance
WorkerSummary(txt) ==
    LET ts == filter_short_pump_tags(
                  AppendAccepted(<<>>, RawMatches(PatternNames, txt)))
        n(c) == Cardinality({t \in Range(ts) : Categorize(t) = c})
    IN  [ total_unique    |-> Cardinality(Range(ts)),
          total_instances |-> Len(ts),
          pumps           |-> n("pumps"),
          valves          |-> n("valves"),
          instruments     |-> n("instruments"),
          equipment       |-> n("equipment"),
          other           |-> n("other") ]

WorkerIds == 1 .. MaxWorkers

\* __init__ (lines 28-31) and the button created disabled (line 123)
GuiInit ==
    /\ pdf_path = NoPath
    /\ extracted_tags = [run |-> 0, path |-> NoPath, value |-> <<>>]
    /\ tag_summary = [run |-> 0, path |-> NoPath, value |-> <<>>]
    /\ export_button = "disabled"
    /\ results_text = <<>>
    /\ status_label = "Ready"
    /\ exported = [written |-> FALSE]
    /\ workers = [w \in WorkerIds |-> [pc |-> "idle"]]

\* _select_pdf with a file chosen
select_pdf(filename) ==
    /\ pdf_path' = filename
    /\ UNCHANGED <<extracted_tags, tag_summary, export_button, results_text,
                   status_label, exported, workers>>

\* _extract_tags without a PDF: the error box
extract_tags_no_pdf ==
    /\ pdf_path = NoPath
    /\ status_label # "Please select a PDF file first"
    /\ status_label' = "Please select a PDF file first"
    /\ UNCHANGED <<pdf_path, extracted_tags, tag_summary, export_button,
                   results_text, exported, workers>>

\* _extract_tags with a PDF: the thread is started
extract_tags(w) ==
    /\ pdf_path # NoPath
    /\ workers[w].pc = "idle"
    /\ \A v \in WorkerIds : v < w => workers[v].pc # "idle"
    /\ workers' = [workers EXCEPT ![w] = [pc |-> "started"]]
    /\ UNCHANGED <<pdf_path, extracted_tags, tag_summary, export_button,
                   results_text, status_label, exported>>

\* _extraction_worker, lines 160-164: self.pdf_path is read here, the text is
\* extracted; an exception ends the worker in the except branch
extraction_worker_extract_text(w) ==
    /\ workers[w].pc = "started"
    /\ IF pdf_path = "bad.pdf"
       THEN /\ workers' = [workers EXCEPT ![w] = [pc |-> "failed"]]
            /\ status_label' = "Error during extraction"
       ELSE /\ workers' = [workers EXCEPT ![w] =
                              [pc |-> "text", path |-> pdf_path,
                               text |-> PdfFileText(pdf_path)]]
            /\ status_label' = "Extracting text from PDF..."
    /\ UNCHANGED <<pdf_path, extracted_tags, tag_summary, export_button,
                   results_text, exported>>

\* lines 167-169: self.extracted_tags = tag_extractor.extract_all_tags(...)
extraction_worker_store_tags(w) ==
    /\ workers[w].pc = "text"
    /\ extracted_tags' = [run |-> w, path |-> workers[w].path,
                          value |-> WorkerTags(workers[w].text)]
    /\ status_label' = "Identifying tags..."
    /\ workers' = [workers EXCEPT ![w].pc = "tags_stored"]
    /\ UNCHANGED <<pdf_path, tag_summary, export_button, results_text, exported>>

\* line 170: self.tag_summary = tag_extractor.get_summary()
extraction_worker_store_summary(w) ==
    /\ workers[w].pc = "tags_stored"
    /\ tag_summary' = [run |-> w, path |-> workers[w].path,
                       value |-> WorkerSummary(workers[w].text)]
    /\ workers' = [workers EXCEPT ![w].pc = "summary_stored"]
    /\ UNCHANGED <<pdf_path, extracted_tags, export_button, results_text,
                   status_label, exported>>

\* _display_results, lines 189-203: the box is cleared and the summary read
\* from self.tag_summary is put at its top
display_results_summary(w) ==
    /\ workers[w].pc = "summary_stored"
    /\ results_text' = << [kind |-> "summary", run |-> tag_summary.run,
                           path |-> tag_summary.path,
                           value |-> tag_summary.value] >>
    /\ workers' = [workers EXCEPT ![w].pc = "summary_shown"]
    /\ UNCHANGED <<pdf_path, extracted_tags, tag_summary, export_button,
                   status_label, exported>>

\* _display_results, lines 206-211: the tags read from self.extracted_tags
\* are put at the end of the box
display_results_tags(w) ==
    /\ workers[w].pc = "summary_shown"
    /\ results_text' = Append(results_text,
                              [kind |-> "tags", run |-> extracted_tags.run,
                               path |-> extracted_tags.path,
                               value |-> extracted_tags.value])
    /\ workers' = [workers EXCEPT ![w].pc = "displayed"]
    /\ UNCHANGED <<pdf_path, extracted_tags, tag_summary, export_button,
                   status_label, exported>>

\* lines 176-181: the export button is enabled, the status updated
extraction_worker_finish(w) ==
    /\ workers[w].pc = "displayed"
    /\ export_button' = "normal"
    /\ status_label' = "Extraction complete!"
    /\ workers' = [workers EXCEPT ![w].pc = "done"]
    /\ UNCHANGED <<pdf_path, extracted_tags, tag_summary, results_text, exported>>

\* _export_csv, pressed once the button is enabled: the tags stored at that
\* moment are written, next to the summary stored at that moment
export_csv ==
    /\ export_button = "normal"
    /\ IF extracted_tags.value = <<>>
       THEN /\ status_label' = "No tags to export"
            /\ UNCHANGED exported
       ELSE /\ exported' = [written |-> TRUE, name |-> pdf_path,
                            tags |-> extracted_tags, summary |-> tag_summary]
            /\ status_label' = "Exported"
    /\ UNCHANGED <<pdf_path, extracted_tags, tag_summary, export_button,
                   results_text, workers>>

GuiIdle ==
    /\ pdf_path = NoPath
    /\ extracted_tags = [run |-> 0, path |-> NoPath, value |-> <<>>]
    /\ tag_summary = [run |-> 0, path |-> NoPath, value |-> <<>>]
    /\ export_button = "disabled"
    /\ results_text = <<>>
    /\ status_label = "Ready"
    /\ exported = [written |-> FALSE]
    /\ workers = <<>>

-----------------------------------------------------------------------------
(* The TagExtractor on its own: one instance and the calls made on it.     *)

PdfIdle ==
    /\ document = [state |-> "missing"]
    /\ ocr_ok = FALSE
    /\ extractor = "none"
    /\ outcome = [op |-> "none"]

Init == TagInit /\ PdfIdle /\ GuiIdle

Next ==
    \/ \E deduplicate \in BOOLEAN :
           extract_all_tags(deduplicate) /\ UNCHANGED <<pdfVars, guiVars>>
    \/ get_tag_counts /\ UNCHANGED <<pdfVars, guiVars>>
    \/ get_tags_by_type /\ UNCHANGED <<pdfVars, guiVars>>
    \/ get_summary /\ UNCHANGED <<pdfVars, guiVars>>

Spec == Init /\ [][Next]_vars

-----------------------------------------------------------------------------
(* The PDFExtractor on its own: one document, one extractor constructed    *)
(* for it, and the calls made on the extractor.                            *)

TagIdle ==
    /\ text = <<>>
    /\ tags = <<>>
    /\ tag_counts = EmptyCounter
    /\ ncalls = 0
    /\ result = [op |-> "none"]

PdfNext ==
    \/ PDFExtractor_init /\ UNCHANGED <<tagVars, guiVars>>
    \/ \E use_ocr \in BOOLEAN, min_text_threshold \in Thresholds :
           extract_text(use_ocr, min_text_threshold) /\ UNCHANGED <<tagVars, guiVars>>
    \/ \E use_ocr \in BOOLEAN :
           extract_text_by_page(use_ocr) /\ UNCHANGED <<tagVars, guiVars>>
    \/ get_page_count /\ UNCHANGED <<tagVars, guiVars>>

PdfSpecInit == PdfInit /\ TagIdle /\ GuiIdle

PdfSpec == PdfSpecInit /\ [][PdfNext]_vars

-----------------------------------------------------------------------------
(* The MainWindow on its own: the user's actions and the worker threads.   *)

GuiNext ==
    \/ \E filename \in PdfFiles :
           select_pdf(filename) /\ UNCHANGED <<tagVars, pdfVars>>
    \/ extract_tags_no_pdf /\ UNCHANGED <<tagVars, pdfVars>>
    \/ \E w \in WorkerIds : extract_tags(w) /\ UNCHANGED <<tagVars, pdfVars>>
    \/ \E w \in WorkerIds :
           extraction_worker_extract_text(w) /\ UNCHANGED <<tagVars, pdfVars>>
    \/ \E w \in WorkerIds :
           extraction_worker_store_tags(w) /\ UNCHANGED <<tagVars, pdfVars>>
    \/ \E w \in WorkerIds :
           extraction_worker_store_summary(w) /\ UNCHANGED <<tagVars, pdfVars>>
    \/ \E w \in WorkerIds :
           display_results_summary(w) /\ UNCHANGED <<tagVars, pdfVars>>
    \/ \E w \in WorkerIds :
           display_results_tags(w) /\ UNCHANGED <<tagVars, pdfVars>>
    \/ \E w \in WorkerIds :
           extraction_worker_finish(w) /\ UNCHANGED <<tagVars, pdfVars>>
    \/ export_csv /\ UNCHANGED <<tagVars, pdfVars>>

GuiSpecInit == GuiInit /\ TagIdle /\ PdfIdle

GuiSpec == GuiSpecInit /\ [][GuiNext]_vars

-----------------------------------------------------------------------------
(* Properties of the TagExtractor.                                         *)

\* the sum of the values of a counter
RECURSIVE SumCounts(_)
SumCounts(c) ==
    IF DOMAIN c = {} THEN 0
    ELSE LET t == CHOOSE u \in DOMAIN c : TRUE
         IN  c[t] + SumCounts([u \in DOMAIN c \ {t} |-> c[u]])

\* the strings held by the last returned value
ResultStrings ==
    CASE result.op = "extract_all_tags" -> Range(result.value)
      [] result.op = "get_tag_counts"   -> DOMAIN result.value
      [] result.op = "get_tags_by_type" ->
             UNION { Range(result.value[c]) : c \in CategoryNames }
      [] OTHER -> {}

\* C1: after any sequence of extract_all_tags calls, get_tag_counts() reflects
\* only the most recent call: its keys are the tags accepted by that call and
\* each count is the number of occurrences of the tag in the list that call
\* built; nothing carries over from an earlier call.
C1_CountsReflectLastCall ==
    /\ DOMAIN get_tag_counts_value = Range(tags)
    /\ \A t \in DOMAIN get_tag_counts_value :
           get_tag_counts_value[t] = Count(tags, t)

\* C2: in every reachable state the five lists of get_tags_by_type partition
\* the set of unique accepted tags: every unique tag is in exactly one list,
\* no list holds anything else or holds a tag twice, and the five lengths sum
\* to get_summary().total_unique.
C2_CategoriesPartitionUniqueTags ==
    LET by_type == get_tags_by_type_value
        summary == get_summary_value
    IN  /\ \A t \in Range(tags) :
               Cardinality({c \in CategoryNames : t \in Range(by_type[c])}) = 1
        /\ \A c \in CategoryNames :
               /\ Range(by_type[c]) \subseteq Range(tags)
               /\ \A t \in Range(by_type[c]) : Count(by_type[c], t) = 1
        /\ Len(by_type["pumps"]) + Len(by_type["valves"])
             + Len(by_type["instruments"]) + Len(by_type["equipment"])
             + Len(by_type["other"]) = summary.total_unique
        /\ summary.pumps + summary.valves + summary.instruments
             + summary.equipment + summary.other = summary.total_unique

\* C2 witness: get_tags_by_type has returned for an accumulator that holds a
\* repeated tag and tags of three different categories.
C2_Witness ==
    /\ ncalls >= 1
    /\ result.op = "get_tags_by_type"
    /\ Len(tags) > Cardinality(Range(tags))
    /\ Cardinality({c \in CategoryNames : result.value[c] # <<>>}) >= 2
    /\ result.value["valves"] = <<VLV1001>>
    /\ result.value["other"] = <<KD1>>

\* C3: after any sequence of extract_all_tags calls, get_summary() agrees with
\* get_tag_counts(): total_instances is the sum of all per-tag counts and the
\* length of the non-deduplicated accepted list, and total_unique is the
\* number of keys of get_tag_counts().
C3_SummaryAgreesWithCounts ==
    LET summary == get_summary_value
        counts  == get_tag_counts_value
    IN  /\ summary.total_instances = SumCounts(counts)
        /\ summary.total_instances = Len(tags)
        /\ summary.total_unique = Cardinality(DOMAIN counts)

\* C4: no string that fully matches an exclusion rule is in the accumulator,
\* in the frequency mapping or in any returned value, whatever the text and
\* the deduplicate flag; VLV1001 matches no exclusion rule and is kept
\* wherever the text holds it.
C4_ExclusionPrecedence ==
    /\ \A t \in Range(tags) \cup DOMAIN tag_counts \cup ResultStrings :
           /\ ~ is_excluded(t)
           /\ t \notin {ST0008, P1011_1}
    /\ is_excluded(ST0008) /\ is_excluded(P1011_1)
    /\ ~ is_excluded(VLV1001)
    /\ (ncalls >= 1 /\ Contains(text, VLV1001)) =>
           /\ VLV1001 \in Range(tags)
           /\ VLV1001 \in DOMAIN get_tag_counts_value
           /\ VLV1001 \in Range(get_tags_by_type_value["valves"])
           /\ result.op = "extract_all_tags" => VLV1001 \in Range(result.value)

\* C4 witness: extract_all_tags has returned for a text that holds a drawing
\* number or a sheet number next to a valve tag; the valve tag is returned.
C4_Witness ==
    /\ result.op = "extract_all_tags"
    /\ Contains(text, ST0008) \/ Contains(text, P1011_1)
    /\ Contains(text, VLV1001)
    /\ VLV1001 \in Range(result.value)

\* C5: extract_all_tags(deduplicate=True) returns a strictly ascending
\* (ordinal order) duplicate-free sequence whose elements are exactly the
\* distinct accepted strings; extract_all_tags(deduplicate=False) returns the
\* accepted strings with their multiplicities, in ascending order.
C5_ReturnedSequenceSorted ==
    result.op = "extract_all_tags" =>
        LET v == result.value
        IN  IF result.deduplicate
            THEN /\ \A i \in 1 .. Len(v) - 1 : StrLess(v[i], v[i + 1])
                 /\ Range(v) = Range(tags)
            ELSE /\ \A i \in 1 .. Len(v) - 1 : ~ StrLess(v[i + 1], v[i])
                 /\ Len(v) = Len(tags)
                 /\ \A t \in Range(v) \cup Range(tags) : Count(v, t) = Count(tags, t)

\* C5 witness: a deduplicated call has returned two tags that the scan
\* accepted in the opposite order, one of them accepted twice.
C5_Witness ==
    /\ result.op = "extract_all_tags"
    /\ result.deduplicate
    /\ result.value = <<KD1, VLV1001>>
    /\ tags = <<VLV1001, VLV1001, KD1>>

\* the predicates of the categorisation chain, as the specification words them
IsPumpTag(t) ==
    \/ (Len(t) >= 7 /\ SubSeq(t, 1, 7) = <<"S","T","O","R","M","_","P">>)
    \/ (Len(t) = 5 /\ t[1] = "P")
IsValveTag(t) == Len(t) >= 3 /\ SubSeq(t, 1, 3) = <<"V","L","V">>
IsInstrumentTag(t) == Cardinality({i \in DOMAIN t : t[i] = "-"}) >= 2
IsEquipmentTag(t) ==
    \E i \in 1 .. Len(t) - 3 :
        SubSeq(t, i, i + 3) \in {<<"T","R","A","P">>, <<"T","A","N","K">>}

\* C6: get_tags_by_type lists each unique accepted tag by the fixed-priority
\* chain Pump, Valve, Instrument, Equipment, Other, the first satisfied
\* predicate winning: a tag that is both Instrument and Equipment is under
\* instruments and not under equipment, and a Pump tag is under pumps.
C6_FirstMatchWins ==
    LET by_type == get_tags_by_type_value
        In(c, t) == t \in Range(by_type[c])
    IN  \A t \in Range(tags) :
            /\ IsPumpTag(t) => In("pumps", t)
            /\ (~ IsPumpTag(t) /\ IsValveTag(t)) => In("valves", t)
            /\ (~ IsPumpTag(t) /\ ~ IsValveTag(t) /\ IsInstrumentTag(t)) =>
                   In("instruments", t) /\ ~ In("equipment", t)
            /\ ( ~ IsPumpTag(t) /\ ~ IsValveTag(t) /\ ~ IsInstrumentTag(t)
                 /\ IsEquipmentTag(t) ) => In("equipment", t)
            /\ ( ~ IsPumpTag(t) /\ ~ IsValveTag(t) /\ ~ IsInstrumentTag(t)
                 /\ ~ IsEquipmentTag(t) ) => In("other", t)

\* C6 witness: get_tags_by_type has returned with a tag that satisfies the
\* Instrument and the Equipment predicate under instruments, next to a tag
\* that satisfies the Equipment predicate alone.
C6_Witness ==
    /\ result.op = "get_tags_by_type"
    /\ IsInstrumentTag(QD_TANK_84_1101) /\ IsEquipmentTag(QD_TANK_84_1101)
    /\ result.value["instruments"] = <<QD_TANK_84_1101>>
    /\ result.value["equipment"] = <<ROCK_TRAP_1>>

-----------------------------------------------------------------------------
(* Properties of the PDFExtractor.                                         *)

Returned(op) == outcome.op = op /\ outcome.status = "returned"

\* C7: a call of extract_text that returns gives exactly the native text when
\* that text is at least min_text_threshold long (no recognition is run) or
\* when use_ocr is false; otherwise it gives the native text, a newline and
\* the recognition text, which starts with the native text, is never the
\* recognition text alone, and is non-empty.
C7_ExtractTextResult ==
    Returned("extract_text") =>
        LET native == outcome.text_extracted
        IN  IF Len(native) >= outcome.min_text_threshold \/ ~ outcome.use_ocr
            THEN /\ outcome.value = native
                 /\ outcome.ocr_calls = <<>>
            ELSE /\ outcome.value = native \o ("\n" \o outcome.ocr_text)
                 /\ Len(outcome.value) = Len(native) + 1 + Len(outcome.ocr_text)
                 /\ outcome.value # outcome.ocr_text
                 /\ outcome.value # ""
                 /\ outcome.ocr_calls # <<>>

\* C7 witness: extract_text has returned on the recognition path, with a
\* non-empty native text below the threshold and recognition output.
C7_Witness ==
    /\ Returned("extract_text")
    /\ outcome.use_ocr
    /\ outcome.text_extracted = "A"
    /\ outcome.min_text_threshold = 2
    /\ outcome.value = "A\nU\nS"

\* the newline-join of the native text of every page, blank pages included
RECURSIVE JoinEveryPage(_)
JoinEveryPage(pages) ==
    IF Len(pages) = 1 THEN pages[1].native
    ELSE JoinEveryPage(SubSeq(pages, 1, Len(pages) - 1))
             \o "\n" \o pages[Len(pages)].native

\* the newline-join of the native text of the pages that have any, built
\* page by page from the front
RECURSIVE JoinTextPages(_)
JoinTextPages(pages) ==
    IF pages = <<>> THEN ""
    ELSE LET before == JoinTextPages(SubSeq(pages, 1, Len(pages) - 1))
             last   == pages[Len(pages)].native
         IN  IF last = "" THEN before
             ELSE IF before = "" THEN last
             ELSE before \o "\n" \o last

\* C8 as stated: the native text extract_text builds is the newline-join of
\* the native text of every page in page order, a page without embedded text
\* contributing the empty string.
C8_NativeTextJoinsEveryPage ==
    Returned("extract_text") =>
        outcome.text_extracted = JoinEveryPage(document.pages)

\* C8 as amended: the native text extract_text builds is the newline-join, in
\* page order, of the native text of the pages that have embedded text; a
\* page without embedded text contributes nothing, not even a separator.
C8_NativeTextJoinsTextPages ==
    Returned("extract_text") =>
        outcome.text_extracted = JoinTextPages(document.pages)

\* C8 witness: extract_text has returned for a document whose first page has
\* no embedded text and whose second page has some.
C8_Witness ==
    /\ Returned("extract_text")
    /\ Len(document.pages) = 2
    /\ document.pages[1].native = ""
    /\ document.pages[2].native = "BB"
    /\ outcome.text_extracted = "BB"

\* C9: a call of extract_text_by_page that returns gives one string per page
\* in page order, as many as get_page_count() reports; entry i is the native
\* text of page i alone when use_ocr is false, and the sparse-text (--psm 11)
\* recognition of page i alone when use_ocr is true, for which every page is
\* recognised once, with that configuration only.
C9_OneStringPerPage ==
    Returned("extract_text_by_page") =>
        /\ Len(outcome.value) = get_page_count_value
        /\ \A i \in 1 .. Len(document.pages) :
               outcome.value[i] = IF outcome.use_ocr
                                  THEN document.pages[i].psm11
                                  ELSE document.pages[i].native
        /\ outcome.ocr_calls =
               IF outcome.use_ocr
               THEN [i \in 1 .. Len(document.pages) |-> <<i, 11>>]
               ELSE <<>>

\* C9 witness: extract_text_by_page(use_ocr=False) has returned for a
\* two-page document whose first page is blank.
C9_Witness ==
    /\ Returned("extract_text_by_page")
    /\ ~ outcome.use_ocr
    /\ Len(document.pages) = 2
    /\ document.pages[1].native = ""
    /\ outcome.value = <<"", "A">>

\* C10: construction fails for a document that is missing or cannot be
\* parsed, so an extractor exists only for a document that exists and
\* parses, and no method starts on a missing or corrupt document.
C10_FatalAtConstruction ==
    /\ document.state = "missing" => extractor \in {"none", "FileNotFoundError"}
    /\ extractor = "constructed" => document.state = "pdf"
    /\ outcome.op # "none" => document.state = "pdf"

\* C11: when extract_text reaches the recognition step (native text below
\* the threshold, use_ocr true) and the recognition engine is unavailable,
\* the call degrades to the native text: it returns, and what it returns is
\* the native text already extracted.
C11_DegradesToNativeText ==
    ( /\ outcome.op = "extract_text"
      /\ document.state = "pdf"
      /\ outcome.use_ocr
      /\ Len(outcome.text_extracted) < outcome.min_text_threshold
      /\ ~ ocr_ok ) =>
        /\ outcome.status = "returned"
        /\ outcome.value = outcome.text_extracted

-----------------------------------------------------------------------------
(* Properties of the accumulator after one call.                           *)

\* the starts of the matches pattern.findall returns, with the matched string
RECURSIVE MatchStartsFrom(_, _, _)
MatchStartsFrom(p, s, i) ==
    IF i > Len(s) THEN {}
    ELSE LET e == COMPILED_PATTERNS(p, s, i)
         IN  IF e > 0
             THEN {<<i, SubSeq(s, i, e - 1)>>} \cup MatchStartsFrom(p, s, e)
             ELSE MatchStartsFrom(p, s, i + 1)

\* the number of positions of s at which the string t is matched as a tag,
\* by whichever patterns
Appearances(s, t) ==
    Cardinality({ i \in 1 .. Len(s) :
                    \E k \in DOMAIN PatternNames :
                        <<i, t>> \in MatchStartsFrom(PatternNames[k], s, 1) })

\* C12: after a single extract_all_tags call on a fresh TagExtractor,
\* get_tag_counts() gives for every accepted tag the number of appearances of
\* the tag in the text, an appearance at one position counting once however
\* many of the seven patterns match it.
C12_CountsAreAppearances ==
    ncalls = 1 =>
        \A t \in DOMAIN get_tag_counts_value :
            get_tag_counts_value[t] = Appearances(text, t)

P1011 == <<"P","1","0","1","1">>

-----------------------------------------------------------------------------
(* Properties of the recognition path.                                     *)

\* the recognition text of a document, built page by page from the front:
\* for each page the uniform-block output, a newline and the sparse output,
\* the pages separated by a newline
RECURSIVE OcrTextOfPages(_)
OcrTextOfPages(pages) ==
    LET last == pages[Len(pages)]
        both == last.psm6 \o "\n" \o last.psm11
    IN  IF Len(pages) = 1 THEN both
        ELSE OcrTextOfPages(SubSeq(pages, 1, Len(pages) - 1)) \o "\n" \o both

\* C14: when extract_text takes the recognition path, every page is
\* recognised exactly twice, with the uniform-block (--psm 6) and then the
\* sparse-text (--psm 11) configuration; a page's combined output is the
\* uniform-block output, a newline and the sparse output, and the recognition
\* text is the combined outputs of all pages in page order, none skipped.
C14_EveryPageRecognisedTwice ==
    ( Returned("extract_text") /\ outcome.ocr_calls # <<>> ) =>
        /\ Len(outcome.ocr_calls) = 2 * Len(document.pages)
        /\ \A i \in 1 .. Len(document.pages) :
               /\ outcome.ocr_calls[2 * i - 1] = <<i, 6>>
               /\ outcome.ocr_calls[2 * i] = <<i, 11>>
        /\ outcome.ocr_text = OcrTextOfPages(document.pages)
        /\ outcome.value = outcome.text_extracted \o "\n" \o outcome.ocr_text

\* C14 witness: extract_text has returned on the recognition path for a
\* two-page document whose second page yields no sparse output.
C14_Witness ==
    /\ Returned("extract_text")
    /\ Len(document.pages) = 2
    /\ outcome.ocr_calls = << <<1, 6>>, <<1, 11>>, <<2, 6>>, <<2, 11>> >>
    /\ document.pages[1].psm11 = "S"
    /\ document.pages[2].psm11 = ""
    /\ outcome.ocr_text = "U\nS\nU\n"


-----------------------------------------------------------------------------
(* C15: under every interleaving of Select PDF, Extract Tags (pressed      *)
(* again while an earlier worker still runs) and Export to CSV, the tag    *)
(* list and the summary that the results box shows, and the tag list that  *)
(* is exported next to the stored summary, come from one extraction run.   *)
(* The workers store and read self.extracted_tags and self.tag_summary     *)
(* without any lock, so two runs mix.                                      *)
C15_TagsAndSummaryOfOneRun ==
    /\ \A i, j \in DOMAIN results_text :
           ( results_text[i].kind = "summary" /\ results_text[j].kind = "tags" )
               => /\ results_text[i].run = results_text[j].run
                  /\ results_text[i].path = results_text[j].path
    /\ exported.written => /\ exported.tags.run = exported.summary.run
                            /\ exported.tags.path = exported.summary.path

=============================================================================
